---- MODULE Spec2Model ----
(***************************************************************************)
(* git-flash-js: the generative agent loop (runGenerativeGitFlow) and the  *)
(* tool executor (executeTool, getSafePath, listTree).                     *)
(*                                                                         *)
(* A JavaScript string is a sequence of one-character strings, so that     *)
(* String.prototype.startsWith and path.resolve are computed character by  *)
(* character.  Text built by template literals is a TLA+ string (ToStr).   *)
(***************************************************************************)
EXTENDS Integers, Sequences, FiniteSets, TLC

(***************************************************************************)
(* Bounds of the model.                                                    *)
(***************************************************************************)
\* number of turns (model responses) one invocation of the loop may take
MaxTurns == 3
\* number of executeTool calls in one behaviour of the executor harness
MaxExecs == 2
\* number of parts in one response of the reasoning service
MaxParts == 2

(***************************************************************************)
(* Strings.                                                                *)
(***************************************************************************)
RECURSIVE ToStr(_)
\* the characters of a JavaScript string, as one TLA+ string
ToStr(cs) == IF cs = <<>> THEN "" ELSE Head(cs) \o ToStr(Tail(cs))

\* String.prototype.startsWith
startsWith(s, prefix) ==
    /\ Len(prefix) <= Len(s)
    /\ \A i \in 1..Len(prefix) : s[i] = prefix[i]

RECURSIVE Split(_, _)
\* s.split("/") : the segments between the separators, empty ones included;
\* cur is the segment being read
Split(s, cur) ==
    IF s = <<>> THEN <<cur>>
    ELSE IF Head(s) = "/" THEN <<cur>> \o Split(Tail(s), <<>>)
    ELSE Split(Tail(s), Append(cur, Head(s)))

RECURSIVE normalizeSegments(_, _)
\* path.resolve's normalisation: "" and "." are dropped, ".." removes the
\* segment before it (and is dropped at the root)
normalizeSegments(segs, acc) ==
    IF segs = <<>> THEN acc
    ELSE LET h == Head(segs) IN
         IF h = <<>> \/ h = <<".">> THEN normalizeSegments(Tail(segs), acc)
         ELSE IF h = <<".", ".">>
              THEN normalizeSegments(Tail(segs),
                       IF acc = <<>> THEN acc ELSE SubSeq(acc, 1, Len(acc) - 1))
              ELSE normalizeSegments(Tail(segs), Append(acc, h))

RECURSIVE JoinSegments(_)
\* "/" before every segment
JoinSegments(segs) ==
    IF segs = <<>> THEN <<>>
    ELSE <<"/">> \o Head(segs) \o JoinSegments(Tail(segs))

\* the segments of an absolute, normalised path string
Segments(abs) == normalizeSegments(Split(abs, <<>>), <<>>)

\* the path string of normalised segments; the root is "/"
FromSegments(segs) == IF segs = <<>> THEN <<"/">> ELSE JoinSegments(segs)

\* path.resolve(from, to), from absolute: an absolute `to` replaces `from`
pathResolve(from, to) ==
    FromSegments(Segments(IF to # <<>> /\ Head(to) = "/" THEN to ELSE from \o <<"/">> \o to))

\* path.join(dir, name): the same normalisation, without the absolute case
pathJoin(dir, name) == FromSegments(Segments(dir \o <<"/">> \o name))

\* the key of a path in the filesystem: its segments as TLA+ strings
SegmentStrings(segs) == [i \in 1..Len(segs) |-> ToStr(segs[i])]
Key(abs) == SegmentStrings(Segments(abs))

(***************************************************************************)
(* The filesystem the fs.promises calls act on: a function from the key of *)
(* every existing path to its node.  The root <<>> is a directory; the     *)
(* parent of every node exists and is a directory.                         *)
(***************************************************************************)
DirNode == [isDir |-> TRUE, content |-> ""]
FileNode(c) == [isDir |-> FALSE, content |-> c]

Exists(f, k) == k \in DOMAIN f
IsDir(f, k) == Exists(f, k) /\ f[k].isDir
IsFile(f, k) == Exists(f, k) /\ ~f[k].isDir
Prefix(k, i) == SubSeq(k, 1, i)
\* k is a or below a
Under(a, k) == Len(a) <= Len(k) /\ Prefix(k, Len(a)) = a
ChildNames(f, k) == {c[Len(c)] : c \in {d \in DOMAIN f : Len(d) = Len(k) + 1 /\ Under(k, d)}}

Min(S) == CHOOSE x \in S : \A y \in S : x <= y

\* the errno of walking to k: the first proper ancestor that is missing
\* (ENOENT) or is a file (ENOTDIR); "" when every ancestor is a directory
AncestorErr(f, k) ==
    LET bad == {i \in 0..(Len(k) - 1) : ~IsDir(f, Prefix(k, i))}
    IN  IF bad = {} THEN ""
        ELSE IF Exists(f, Prefix(k, Min(bad))) THEN "ENOTDIR" ELSE "ENOENT"

ErrnoText(code) ==
    CASE code = "ENOENT"    -> "no such file or directory"
      [] code = "ENOTDIR"   -> "not a directory"
      [] code = "EISDIR"    -> "illegal operation on a directory"
      [] code = "EEXIST"    -> "file already exists"
      [] code = "ENOTEMPTY" -> "directory not empty"
      [] code = "EINVAL"    -> "invalid argument"
      [] code = "EBUSY"     -> "resource busy or locked"
      [] OTHER              -> "unknown error"

\* error.message of a failed fs call
ErrnoMessage(code, syscall, path) ==
    code \o ": " \o ErrnoText(code) \o ", " \o syscall \o " '" \o ToStr(path) \o "'"

\* the outcome of one fs call: ok with a value and the filesystem after it,
\* or a rejection with error.message; op and path name the call
FsOk(op, path, f, v) == [ok |-> TRUE, op |-> op, path |-> ToStr(path), fs |-> f, val |-> v, msg |-> ""]
FsErr(op, path, f, code, syscall) ==
    [ok |-> FALSE, op |-> op, path |-> ToStr(path), fs |-> f, val |-> <<>>,
     msg |-> ErrnoMessage(code, syscall, path)]

\* the entries of a directory in the order the platform returns them: ord is
\* that order, a sequence over the names
Ordered(ord, names) == SelectSeq(ord, LAMBDA n : n \in names)

\* fs.readdir(path): the names, in directory order
fsReaddir(f, path, ord) ==
    LET k == Key(path) a == AncestorErr(f, k) IN
    IF a # "" THEN FsErr("readdir", path, f, a, "scandir")
    ELSE IF ~Exists(f, k) THEN FsErr("readdir", path, f, "ENOENT", "scandir")
    ELSE IF ~f[k].isDir THEN FsErr("readdir", path, f, "ENOTDIR", "scandir")
    ELSE FsOk("readdir", path, f, Ordered(ord, ChildNames(f, k)))

\* fs.readFile(path, 'utf-8')
fsReadFile(f, path) ==
    LET k == Key(path) a == AncestorErr(f, k) IN
    IF a # "" THEN FsErr("readFile", path, f, a, "open")
    ELSE IF ~Exists(f, k) THEN FsErr("readFile", path, f, "ENOENT", "open")
    ELSE IF f[k].isDir THEN FsErr("readFile", path, f, "EISDIR", "read")
    ELSE FsOk("readFile", path, f, f[k].content)

\* fs.stat(path): isFile()
fsStat(f, path) ==
    LET k == Key(path) a == AncestorErr(f, k) IN
    IF a # "" THEN FsErr("stat", path, f, a, "stat")
    ELSE IF ~Exists(f, k) THEN FsErr("stat", path, f, "ENOENT", "stat")
    ELSE FsOk("stat", path, f, ~f[k].isDir)

\* fs.writeFile(path, content): creates or overwrites the file
fsWriteFile(f, path, content) ==
    LET k == Key(path) a == AncestorErr(f, k) IN
    IF a # "" THEN FsErr("writeFile", path, f, a, "open")
    ELSE IF IsDir(f, k) THEN FsErr("writeFile", path, f, "EISDIR", "open")
    ELSE FsOk("writeFile", path,
              [x \in DOMAIN f \cup {k} |-> IF x = k THEN FileNode(content) ELSE f[x]], <<>>)

\* fs.unlink(path)
fsUnlink(f, path) ==
    LET k == Key(path) a == AncestorErr(f, k) IN
    IF a # "" THEN FsErr("unlink", path, f, a, "unlink")
    ELSE IF ~Exists(f, k) THEN FsErr("unlink", path, f, "ENOENT", "unlink")
    ELSE IF f[k].isDir THEN FsErr("unlink", path, f, "EISDIR", "unlink")
    ELSE FsOk("unlink", path, [x \in DOMAIN f \ {k} |-> f[x]], <<>>)

\* fs.mkdir(path, {recursive: true}): every missing directory on the way
fsMkdir(f, path) ==
    LET k   == Key(path)
        bad == {i \in 0..Len(k) : IsFile(f, Prefix(k, i))}
        new == {Prefix(k, i) : i \in 0..Len(k)}
    IN  IF bad # {}
        THEN FsErr("mkdir", path, f, IF Min(bad) = Len(k) THEN "EEXIST" ELSE "ENOTDIR", "mkdir")
        ELSE FsOk("mkdir", path,
                  [x \in DOMAIN f \cup new |-> IF x \in DOMAIN f THEN f[x] ELSE DirNode], <<>>)

\* fs.rm(path, {recursive: true, force: true}): the subtree; a missing path
\* is no error (force), any other lstat failure is
fsRm(f, path) ==
    LET k == Key(path) a == AncestorErr(f, k) IN
    IF a = "ENOTDIR" THEN FsErr("rm", path, f, a, "lstat")
    ELSE IF a = "ENOENT" \/ ~Exists(f, k) THEN FsOk("rm", path, f, <<>>)
    ELSE IF k = <<>> THEN FsErr("rm", path, f, "EBUSY", "rmdir")
    ELSE FsOk("rm", path, [x \in {d \in DOMAIN f : ~Under(k, d)} |-> f[x]], <<>>)

\* fs.rename(source, destination): rename(2)
fsRename(f, src, dst) ==
    LET s  == Key(src)
        d  == Key(dst)
        as == AncestorErr(f, s)
        ad == AncestorErr(f, d)
        moved == {x \in DOMAIN f : Under(s, x)}
        kept  == {x \in DOMAIN f : ~Under(s, x) /\ ~Under(d, x)}
        To(x) == d \o SubSeq(x, Len(s) + 1, Len(x))
        new   == kept \cup {To(x) : x \in moved}
        From(y) == CHOOSE x \in moved : To(x) = y
    IN  IF as # "" THEN FsErr("rename", src, f, as, "rename")
        ELSE IF ~Exists(f, s) THEN FsErr("rename", src, f, "ENOENT", "rename")
        ELSE IF ad # "" THEN FsErr("rename", src, f, ad, "rename")
        ELSE IF s = d THEN FsOk("rename", src, f, <<>>)
        ELSE IF s = <<>> THEN FsErr("rename", src, f, "EBUSY", "rename")
        ELSE IF Under(s, d) THEN FsErr("rename", src, f, "EINVAL", "rename")
        ELSE IF IsDir(f, d) /\ ~f[s].isDir THEN FsErr("rename", src, f, "EISDIR", "rename")
        ELSE IF IsFile(f, d) /\ f[s].isDir THEN FsErr("rename", src, f, "ENOTDIR", "rename")
        ELSE IF IsDir(f, d) /\ ChildNames(f, d) # {}
             THEN FsErr("rename", src, f, "ENOTEMPTY", "rename")
        ELSE FsOk("rename", src,
                  [y \in new |-> IF y \in kept THEN f[y] ELSE f[From(y)]], <<>>)

(***************************************************************************)
(* JavaScript values of the executor.                                      *)
(***************************************************************************)
\* a string result and an object result (a mapping from keys to values)
StringResult(s) == [kind |-> "string", s |-> s, o |-> <<>>]
ObjectResult(o) == [kind |-> "object", s |-> "", o |-> o]

\* error.code of child_process.exec's callback: a number, a string or null
JsNumber(n) == [t |-> "number", n |-> n, s |-> ""]
JsString(s) == [t |-> "string", n |-> 0, s |-> s]
JsNull == [t |-> "null", n |-> 0, s |-> ""]

\* functionCall.args: an ordered mapping <<key, value>>, or undefined when
\* the response carries none
Undefined == [defined |-> FALSE, v |-> <<>>]
Defined(v) == [defined |-> TRUE, v |-> v]
HasKey(args, key) == \E i \in 1..Len(args.v) : args.v[i][1] = key
\* args[key] of a defined args: the value, or undefined
Prop(args, key) ==
    IF HasKey(args, key)
    THEN Defined(args.v[CHOOSE i \in 1..Len(args.v) : args.v[i][1] = key][2])
    ELSE Undefined

\* how a block of the executor completes: it returns a value or throws an
\* Error with a message; fs is the filesystem after it, trace the guard
\* checks and fs calls it made, in order
Return(value, f, trace) == [threw |-> FALSE, value |-> value, message |-> "", fs |-> f, trace |-> trace]
Throw(message, f, trace) ==
    [threw |-> TRUE, value |-> StringResult(""), message |-> message, fs |-> f, trace |-> trace]

GuardEvent(target, ok, resolved) == [op |-> "guard", path |-> target, ok |-> ok, resolved |-> resolved]
FsEvent(r) == [op |-> r.op, path |-> r.path, ok |-> r.ok, resolved |-> <<>>]

\* reading args.<key> when args is undefined
UndefinedArgsMessage(key) == "Cannot read properties of undefined (reading '" \o key \o "')"
\* path.resolve and fs.writeFile reject an argument that is no string
InvalidArgMessage(what) == "The \"" \o what \o "\" argument must be of type string. Received undefined"

PathDeniedMessage(targetPath) ==
    "Path access denied: '" \o ToStr(targetPath) \o "' is outside the project directory."

\* lines 294-297, for the resolved path
checkPrefix(workDir, targetPath, resolvedTargetPath) ==
    IF ~startsWith(resolvedTargetPath, workDir)
    THEN [threw |-> TRUE, message |-> PathDeniedMessage(targetPath), path |-> <<>>,
          event |-> GuardEvent(ToStr(targetPath), FALSE, resolvedTargetPath)]
    ELSE [threw |-> FALSE, message |-> "", path |-> resolvedTargetPath,
          event |-> GuardEvent(ToStr(targetPath), TRUE, resolvedTargetPath)]

\* lines 291-292, for workDir = path.resolve(workingDirectory); path.resolve
\* throws a TypeError for an argument that is undefined
resolveAgainst(workDir, targetPath) ==
    IF ~targetPath.defined
    THEN [threw |-> TRUE, message |-> InvalidArgMessage("paths[1]"), path |-> <<>>,
          event |-> GuardEvent("undefined", FALSE, <<>>)]
    ELSE checkPrefix(workDir, targetPath.v, pathResolve(workDir, targetPath.v))

\* getSafePath(targetPath), lines 290-298, with workingDirectory in scope:
\* [threw, message, path, event]
getSafePath(workingDirectory, targetPath) ==
    resolveAgainst(pathResolve(<<"/">>, workingDirectory), targetPath)

RECURSIVE Join(_, _)
\* Array.prototype.join
Join(strs, sep) ==
    IF strs = <<>> THEN ""
    ELSE IF Len(strs) = 1 THEN strs[1]
    ELSE strs[1] \o sep \o Join(Tail(strs), sep)

\* a listing of the first level only
listTree_shallow(f, dir, ord) ==
    IF ~fsReaddir(f, dir, ord).ok
    THEN [ok |-> FALSE, val |-> <<>>, msg |-> fsReaddir(f, dir, ord).msg,
          trace |-> <<FsEvent(fsReaddir(f, dir, ord))>>]
    ELSE [ok |-> TRUE,
          val |-> [i \in 1..Len(fsReaddir(f, dir, ord).val) |->
                     IF f[Key(pathResolve(dir, <<fsReaddir(f, dir, ord).val[i]>>))].isDir
                     THEN fsReaddir(f, dir, ord).val[i] \o "/"
                     ELSE fsReaddir(f, dir, ord).val[i]],
          msg |-> "", trace |-> <<FsEvent(fsReaddir(f, dir, ord))>>]

\* listTree(dir), lines 362-376: [ok, val, msg, trace], val the lines.  A
\* name read from a directory holds no separator and is kept as one unit of
\* the path string.
RECURSIVE listTree(_, _, _)
\* the for loop of listTree over the dirents left, lines 365-374
RECURSIVE listEntries(_, _, _, _)
listEntries(f, dir, names, ord) ==
    IF names = <<>> THEN [ok |-> TRUE, val |-> <<>>, msg |-> "", trace |-> <<>>]
    ELSE LET name == Head(names)
             res  == pathResolve(dir, <<name>>)
             rest == listEntries(f, dir, Tail(names), ord)
         IN  IF f[Key(res)].isDir
             THEN LET sub == listTree(f, res, ord) IN
                  IF ~sub.ok THEN sub
                  ELSE IF ~rest.ok THEN [rest EXCEPT !.trace = sub.trace \o rest.trace]
                  ELSE [ok |-> TRUE,
                        val |-> <<name \o "/">>
                                \o [i \in 1..Len(sub.val) |-> "  " \o sub.val[i]]
                                \o rest.val,
                        msg |-> "", trace |-> sub.trace \o rest.trace]
             ELSE IF ~rest.ok THEN rest
             ELSE [ok |-> TRUE, val |-> <<name>> \o rest.val, msg |-> "", trace |-> rest.trace]

listTree(f, dir, ord) ==
    LET dirents == fsReaddir(f, dir, ord) IN
    IF ~dirents.ok
    THEN [ok |-> FALSE, val |-> <<>>, msg |-> dirents.msg, trace |-> <<FsEvent(dirents)>>]
    ELSE LET r == listEntries(f, dir, dirents.val, ord)
         IN  [r EXCEPT !.trace = <<FsEvent(dirents)>> \o r.trace]

\* fileContents[file] = value, line 348, for a string value: the key
\* "__proto__" names the accessor of Object.prototype, whose setter ignores a
\* value that is no object, so the mapping gets no such key
setProperty(o, key, value) ==
    IF key = "__proto__" THEN o
    ELSE [x \in DOMAIN o \cup {key} |-> IF x = key THEN value ELSE o[x]]

RECURSIVE readEntries(_, _, _, _)
\* the for loop of read_directory_files over the names left, lines 344-350:
\* [ok, val, msg, trace], val the mapping fileContents built from acc
readEntries(f, readDirPath, names, acc) ==
    IF names = <<>> THEN [ok |-> TRUE, val |-> acc, msg |-> "", trace |-> <<>>]
    ELSE LET file     == Head(names)
             filePath == pathJoin(readDirPath, <<file>>)
             stat     == fsStat(f, filePath)
         IN  IF ~stat.ok
             THEN [ok |-> FALSE, val |-> acc, msg |-> stat.msg, trace |-> <<FsEvent(stat)>>]
             ELSE IF stat.val
             THEN LET rd == fsReadFile(f, filePath) IN
                  IF ~rd.ok
                  THEN [ok |-> FALSE, val |-> acc, msg |-> rd.msg,
                        trace |-> <<FsEvent(stat), FsEvent(rd)>>]
                  ELSE LET rest == readEntries(f, readDirPath, Tail(names),
                                       setProperty(acc, file, rd.val))
                       IN [rest EXCEPT !.trace = <<FsEvent(stat), FsEvent(rd)>> \o rest.trace]
             ELSE LET rest == readEntries(f, readDirPath, Tail(names), acc)
                  IN [rest EXCEPT !.trace = <<FsEvent(stat)>> \o rest.trace]

\* the mapping with no key
EmptyObject == [x \in {} |-> ""]

(***************************************************************************)
(* child_process.exec of `git <command>` in workingDirectory.  What the    *)
(* command does is the shell's and git's: outcome is the callback's        *)
(* (error, stdout, stderr) and effect what the command did to the          *)
(* directory.  A missing working directory fails the spawn.                *)
(***************************************************************************)
GitDir == <<".git">>

exec(f, workingDirectory, outcome) ==
    IF ~IsDir(f, Key(workingDirectory))
    THEN [error |-> TRUE, code |-> JsString("ENOENT"), stdout |-> "", stderr |-> "", fs |-> f]
    ELSE [error |-> outcome.error, code |-> outcome.code, stdout |-> outcome.stdout,
          stderr |-> outcome.stderr,
          fs |-> IF outcome.effect = "init"
                 THEN fsMkdir(f, pathJoin(workingDirectory, GitDir)).fs
                 ELSE f]

(***************************************************************************)
(* executeTool(name, args), lines 287-360.  f is the filesystem before the *)
(* call, workingDirectory the value of process.cwd() (line 288), ord the   *)
(* order in which the platform lists directories and outcome what the git  *)
(* command does.                                                           *)
(***************************************************************************)
\* `await` of an fs call that completed as r, after the events evs: a
\* rejection throws, otherwise the case returns value
awaited(r, f, evs, value) ==
    IF ~r.ok THEN Throw(r.msg, f, Append(evs, FsEvent(r)))
    ELSE Return(value, r.fs, Append(evs, FsEvent(r)))

\* the same for listTree and the loop of read_directory_files, which make
\* several fs calls
awaitedAll(r, f, evs, value) ==
    IF ~r.ok THEN Throw(r.msg, f, evs \o r.trace)
    ELSE Return(value, f, evs \o r.trace)

\* a callback that reports every command as a success
execCallback_zero(r, workingDirectory) ==
    Return(ObjectResult([stdout |-> r.stdout, stderr |-> r.stderr, return_code |-> JsNumber(0)]),
           r.fs,
           <<[op |-> "exec", path |-> ToStr(workingDirectory), ok |-> ~r.error, resolved |-> <<>>]>>)

\* the callback of exec, lines 304-306
execCallback(r, workingDirectory) ==
    Return(ObjectResult([stdout |-> r.stdout, stderr |-> r.stderr,
                         return_code |-> IF r.error THEN r.code ELSE JsNumber(0)]),
           r.fs,
           <<[op |-> "exec", path |-> ToStr(workingDirectory), ok |-> ~r.error, resolved |-> <<>>]>>)

\* lines 302-307
run_git_command(f, workingDirectory, args, outcome) ==
    IF ~args.defined THEN Throw(UndefinedArgsMessage("command"), f, <<>>)
    ELSE execCallback(exec(f, workingDirectory, outcome), workingDirectory)

\* files.join('\n') || 'Directory is empty.'
joinedOr(joined, other) == IF joined = "" THEN other ELSE joined

\* line 311, files the completion of the readdir
list_files_return(files, f, evs) ==
    awaited(files, f, evs, StringResult(joinedOr(Join(files.val, "\n"), "Directory is empty.")))

\* lines 309-311 once getSafePath has completed as g
list_files_guarded(g, f, ord) ==
    IF g.threw THEN Throw(g.message, f, <<g.event>>)
    ELSE list_files_return(fsReaddir(f, g.path, ord), f, <<g.event>>)

\* lines 308-311; args.path throws a TypeError when args is undefined
list_files(f, workingDirectory, args, ord) ==
    IF ~args.defined THEN Throw(UndefinedArgsMessage("path"), f, <<>>)
    ELSE list_files_guarded(getSafePath(workingDirectory, Prop(args, "path")), f, ord)

\* line 314, r the completion of the readFile
read_file_return(r, f, evs) == awaited(r, f, evs, StringResult(r.val))

\* lines 313-314 once getSafePath has completed as g
read_file_guarded(g, f) ==
    IF g.threw THEN Throw(g.message, f, <<g.event>>)
    ELSE read_file_return(fsReadFile(f, g.path), f, <<g.event>>)

\* lines 312-314
read_file(f, workingDirectory, args) ==
    IF ~args.defined THEN Throw(UndefinedArgsMessage("path"), f, <<>>)
    ELSE read_file_guarded(getSafePath(workingDirectory, Prop(args, "path")), f)

\* lines 316-318 once getSafePath has completed as g
write_file_guarded(g, f, args) ==
    IF g.threw THEN Throw(g.message, f, <<g.event>>)
    ELSE IF ~Prop(args, "content").defined
    THEN Throw(InvalidArgMessage("data"), f, <<g.event>>)
    ELSE awaited(fsWriteFile(f, g.path, ToStr(Prop(args, "content").v)), f, <<g.event>>,
                 StringResult("Successfully wrote to '" \o ToStr(Prop(args, "path").v) \o "'."))

\* lines 315-318
write_file(f, workingDirectory, args) ==
    IF ~args.defined THEN Throw(UndefinedArgsMessage("path"), f, <<>>)
    ELSE write_file_guarded(getSafePath(workingDirectory, Prop(args, "path")), f, args)

\* a move that goes ahead whatever the guard said of the destination
move_file_destination_unchecked(gd, f, sourcePath, evs, args) ==
    awaited(fsRename(f, sourcePath, gd.event.resolved), f, <<evs, gd.event>>,
            StringResult("Successfully moved '" \o ToStr(Prop(args, "source").v)
                         \o "' to '" \o ToStr(Prop(args, "destination").v) \o "'."))

\* lines 322-323 once getSafePath(args.destination) has completed as gd
move_file_destination(gd, f, sourcePath, evs, args) ==
    IF gd.threw THEN Throw(gd.message, f, <<evs, gd.event>>)
    ELSE awaited(fsRename(f, sourcePath, gd.path), f, <<evs, gd.event>>,
                 StringResult("Successfully moved '" \o ToStr(Prop(args, "source").v)
                              \o "' to '" \o ToStr(Prop(args, "destination").v) \o "'."))

\* lines 321-323 once getSafePath(args.source) has completed as gs
move_file_source(gs, f, workingDirectory, args) ==
    IF gs.threw THEN Throw(gs.message, f, <<gs.event>>)
    ELSE move_file_destination(getSafePath(workingDirectory, Prop(args, "destination")),
                               f, gs.path, gs.event, args)

\* lines 319-323
move_file(f, workingDirectory, args) ==
    IF ~args.defined THEN Throw(UndefinedArgsMessage("source"), f, <<>>)
    ELSE move_file_source(getSafePath(workingDirectory, Prop(args, "source")),
                          f, workingDirectory, args)

\* lines 326-327 once getSafePath has completed as g
delete_file_guarded(g, f, args) ==
    IF g.threw THEN Throw(g.message, f, <<g.event>>)
    ELSE awaited(fsUnlink(f, g.path), f, <<g.event>>,
                 StringResult("Successfully deleted file '" \o ToStr(Prop(args, "path").v) \o "'."))

\* lines 324-327
delete_file(f, workingDirectory, args) ==
    IF ~args.defined THEN Throw(UndefinedArgsMessage("path"), f, <<>>)
    ELSE delete_file_guarded(getSafePath(workingDirectory, Prop(args, "path")), f, args)

\* lines 330-331 once getSafePath has completed as g
create_directory_guarded(g, f, args) ==
    IF g.threw THEN Throw(g.message, f, <<g.event>>)
    ELSE awaited(fsMkdir(f, g.path), f, <<g.event>>,
                 StringResult("Successfully created directory '"
                              \o ToStr(Prop(args, "path").v) \o "'."))

\* lines 328-331
create_directory(f, workingDirectory, args) ==
    IF ~args.defined THEN Throw(UndefinedArgsMessage("path"), f, <<>>)
    ELSE create_directory_guarded(getSafePath(workingDirectory, Prop(args, "path")), f, args)

\* lines 334-335 once getSafePath has completed as g
delete_directory_guarded(g, f, args) ==
    IF g.threw THEN Throw(g.message, f, <<g.event>>)
    ELSE awaited(fsRm(f, g.path), f, <<g.event>>,
                 StringResult("Successfully deleted directory '"
                              \o ToStr(Prop(args, "path").v) \o "' and all its contents."))

\* lines 332-335
delete_directory(f, workingDirectory, args) ==
    IF ~args.defined THEN Throw(UndefinedArgsMessage("path"), f, <<>>)
    ELSE delete_directory_guarded(getSafePath(workingDirectory, Prop(args, "path")), f, args)

\* line 339, tree the completion of listTree
list_directory_tree_return(tree, f, evs) ==
    awaitedAll(tree, f, evs, StringResult(Join(tree.val, "\n")))

\* lines 338-339 once getSafePath has completed as g
list_directory_tree_guarded(g, f, ord) ==
    IF g.threw THEN Throw(g.message, f, <<g.event>>)
    ELSE list_directory_tree_return(listTree(f, g.path, ord), f, <<g.event>>)

\* lines 336-339
list_directory_tree(f, workingDirectory, args, ord) ==
    IF ~args.defined THEN Throw(UndefinedArgsMessage("path"), f, <<>>)
    ELSE list_directory_tree_guarded(getSafePath(workingDirectory, Prop(args, "path")), f, ord)

\* line 351, r the completion of the for loop
read_directory_files_return(r, f, evs) == awaitedAll(r, f, evs, ObjectResult(r.val))

\* the statements after the readdir of line 342 completed as dirFiles
readListed(dirFiles, f, readDirPath, ev) ==
    IF ~dirFiles.ok THEN Throw(dirFiles.msg, f, <<ev, FsEvent(dirFiles)>>)
    ELSE read_directory_files_return(readEntries(f, readDirPath, dirFiles.val, EmptyObject),
                                     f, <<ev, FsEvent(dirFiles)>>)

\* lines 342-351 once getSafePath has completed as g
read_directory_files_guarded(g, f, ord) ==
    IF g.threw THEN Throw(g.message, f, <<g.event>>)
    ELSE readListed(fsReaddir(f, g.path, ord), f, g.path, g.event)

\* lines 340-351
read_directory_files(f, workingDirectory, args, ord) ==
    IF ~args.defined THEN Throw(UndefinedArgsMessage("path"), f, <<>>)
    ELSE read_directory_files_guarded(getSafePath(workingDirectory, Prop(args, "path")), f, ord)

\* lines 352-353
get_current_directory(f, workingDirectory) == Return(StringResult(ToStr(workingDirectory)), f, <<>>)

\* the switch of lines 301-356
switchBody(f, workingDirectory, name, args, ord, outcome) ==
    CASE name = "run_git_command"       -> run_git_command(f, workingDirectory, args, outcome)
      [] name = "list_files"            -> list_files(f, workingDirectory, args, ord)
      [] name = "read_file"             -> read_file(f, workingDirectory, args)
      [] name = "write_file"            -> write_file(f, workingDirectory, args)
      [] name = "move_file"             -> move_file(f, workingDirectory, args)
      [] name = "delete_file"           -> delete_file(f, workingDirectory, args)
      [] name = "create_directory"      -> create_directory(f, workingDirectory, args)
      [] name = "delete_directory"      -> delete_directory(f, workingDirectory, args)
      [] name = "list_directory_tree"   -> list_directory_tree(f, workingDirectory, args, ord)
      [] name = "read_directory_files"  -> read_directory_files(f, workingDirectory, args, ord)
      [] name = "get_current_directory" -> get_current_directory(f, workingDirectory)
      [] OTHER -> Return(ObjectResult([error |-> "Unknown tool: " \o name]), f, <<>>)

\* a catch block that rethrows
catch_rethrow(c) == c

\* catch (error) { return { error: error.message } }, lines 357-359, for the
\* completion c of the try block
catch(c) ==
    IF c.threw THEN Return(ObjectResult([error |-> c.message]), c.fs, c.trace) ELSE c

\* executeTool(name, args)
executeTool(f, workingDirectory, name, args, ord, outcome) ==
    catch(switchBody(f, workingDirectory, name, args, ord, outcome))

(***************************************************************************)
(* Inputs of the model: path strings, tool calls, responses of the         *)
(* reasoning service, directory orders and git outcomes.                   *)
(***************************************************************************)
\* the directories the process may be started in; /we is a sibling of /w
\* whose name starts with the characters of "w"
DirW == <<"/", "w">>
DirWe == <<"/", "w", "e">>
WorkDirs == {DirW, DirWe}

\* the filesystem at the start: /w/a, /w/d/b, /we/x
InitFS ==
    (<<>> :> DirNode) @@ (<<"w">> :> DirNode) @@ (<<"w", "a">> :> FileNode("c1"))
    @@ (<<"w", "d">> :> DirNode) @@ (<<"w", "d", "b">> :> FileNode("c1"))
    @@ (<<"we">> :> DirNode) @@ (<<"we", "x">> :> FileNode("secret"))

PDot == <<".">>
PA == <<"a">>
PD == <<"d">>
PUp == <<".", ".">>
PSibling == <<".", ".", "/", "w", "e">>
PSiblingX == <<".", ".", "/", "w", "e", "/", "x">>
PAbsA == <<"/", "w", "/", "a">>
PNew == <<"n">>
PBelowFile == <<"a", "/", "z">>

\* the path arguments the executor is tried on
PathInputs == {PDot, PA, PD, PUp, PSibling, PSiblingX, PAbsA, PNew, PBelowFile}
\* the pairs of move_file are drawn from these
MoveInputs == {PA, PD, PNew, PSiblingX, PUp}
Content2 == <<"c", "2">>

\* every name a directory entry can have, in the two directory orders tried
NamesAscending == <<".git", "__proto__", "a", "b", "d", "error", "m", "n", "w", "we", "x", "z">>
NamesDescending == <<"z", "x", "we", "w", "n", "m", "error", "d", "b", "a", "__proto__", ".git">>
Orders == {NamesAscending, NamesDescending}

\* what a git command may do: succeed, succeed and create .git, exit with
\* status 1, be killed by a signal (error.code is null)
GitOutcomes ==
    {[error |-> FALSE, code |-> JsNumber(0), stdout |-> "ok", stderr |-> "", effect |-> "none"],
     [error |-> FALSE, code |-> JsNumber(0), stdout |-> "ok", stderr |-> "", effect |-> "init"],
     [error |-> TRUE, code |-> JsNumber(1), stdout |-> "", stderr |-> "fatal", effect |-> "none"],
     [error |-> TRUE, code |-> JsNull, stdout |-> "", stderr |-> "", effect |-> "none"]}

\* the directory order is an input of the tools that list a directory and the
\* git outcome an input of run_git_command: one value stands for the others
\* in the calls that read neither
Relevant(name, ord, outcome) ==
    /\ name \notin {"list_files", "list_directory_tree", "read_directory_files"}
          => ord = NamesAscending
    /\ name # "run_git_command" => outcome.effect = "none" /\ ~outcome.error

PathTools == {"list_files", "read_file", "delete_file", "create_directory", "delete_directory",
              "list_directory_tree", "read_directory_files"}
ToolNames == PathTools \cup {"run_git_command", "write_file", "move_file", "get_current_directory"}
UnknownName == "frobnicate"

Call(name, args) == [name |-> name, args |-> args]
NoCall == Call("", Undefined)

\* the calls of the executor harness
ExecCalls ==
    {Call(n, Defined(<<<<"path", p>>>>)) : n \in PathTools, p \in PathInputs}
    \cup {Call(n, Defined(<<>>)) : n \in ToolNames \cup {UnknownName}}
    \cup {Call(n, Undefined) : n \in ToolNames \cup {UnknownName}}
    \cup {Call("write_file", Defined(<<<<"path", p>>, <<"content", Content2>>>>)) : p \in PathInputs}
    \cup {Call("write_file", Defined(<<<<"path", PA>>>>))}
    \cup {Call("move_file", Defined(<<<<"source", p>>, <<"destination", q>>>>)) :
             p \in MoveInputs, q \in MoveInputs}
    \cup {Call("move_file", Defined(<<<<"source", PA>>>>))}
    \cup {Call("run_git_command", Defined(<<<<"command", <<"s">>>>>>))}

\* the calls the reasoning service requests in the loop
LoopCalls ==
    {Call("write_file", Defined(<<<<"path", PA>>, <<"content", Content2>>>>)),
     Call("read_file", Defined(<<<<"path", PSiblingX>>>>)),
     Call("list_files", Defined(<<<<"path", PUp>>>>)),
     Call("delete_file", Defined(<<<<"path", PNew>>>>)),
     Call("delete_directory", Defined(<<<<"path", PDot>>>>)),
     Call("run_git_command", Defined(<<<<"command", <<"s">>>>>>)),
     Call("get_current_directory", Defined(<<>>)),
     Call("get_current_directory", Undefined),
     Call(UnknownName, Defined(<<>>))}

\* a part of a response: text, or a functionCall
TextPart(t) == [isCall |-> FALSE, call |-> NoCall, text |-> t]
CallPart(c) == [isCall |-> TRUE, call |-> c, text |-> ""]
\* a response: candidates[0].content.parts is an array or undefined;
\* a blocked response has no candidate
Response(parts) == [candidate |-> TRUE, parts |-> parts]
Blocked == [candidate |-> FALSE, parts |-> Undefined]
NoResponse == Response(Undefined)

WriteCall == Call("write_file", Defined(<<<<"path", PA>>, <<"content", Content2>>>>))
DeleteCall == Call("delete_file", Defined(<<<<"path", PNew>>>>))

\* responses of up to MaxParts parts
Responses ==
    {Response(Defined(<<CallPart(c)>>)) : c \in LoopCalls}
    \cup {Response(Defined(<<TextPart("done")>>)), Response(Defined(<<>>)), NoResponse, Blocked}
    \cup (IF MaxParts >= 2
          THEN {Response(Defined(<<TextPart("plan")>> \o [i \in 1..(MaxParts - 1) |-> CallPart(WriteCall)])),
                Response(Defined(<<CallPart(WriteCall)>> \o [i \in 1..(MaxParts - 1) |-> CallPart(DeleteCall)]))}
          ELSE {})

\* the responses of the service in a pair of invocations
PairResponses ==
    {Response(Defined(<<CallPart(c)>>)) :
        c \in {WriteCall, DeleteCall, Call("get_current_directory", Undefined)}}
    \cup {Response(Defined(<<TextPart("done")>>)),
          Response(Defined(<<TextPart("plan"), CallPart(WriteCall)>>))}

\* a response that may end an invocation at the turn cap
PlainText == Response(Defined(<<TextPart("done")>>))

Instruction == "goal"

(***************************************************************************)
(* State.                                                                  *)
(***************************************************************************)
VARIABLES
    fs,          \* the filesystem
    cwd,         \* process.cwd(), the directory the process was started in
    dryRun,      \* options.dryRun of this invocation
    pc,          \* where runGenerativeGitFlow (or the executor harness) stands
    turn,        \* the number of responses received in this invocation
    response,    \* `response`, the last response of the reasoning service
    call,        \* { name, args } of line 261, or the harness's call
    toolOutput,  \* `toolOutput` of line 266, or the harness's result
    trace,       \* the guard checks and fs calls of the last executeTool
    log,         \* what this invocation printed, sent, received and executed
    fault,       \* the error that ended the invocation, "" when none
    execs,       \* executeTool calls made by the harness
    prev         \* the earlier invocations of a pair: <<[dryRun, log, pc]>>

vars == <<fs, cwd, dryRun, pc, turn, response, call, toolOutput, trace, log, fault, execs, prev>>

\* an entry of the log: shown is what a display shows, or the trace of an
\* execution
Event(ev, c, value, text, shown) ==
    [ev |-> ev, turn |-> turn, call |-> c, value |-> value, text |-> text, shown |-> shown]

NoValue == StringResult("")

\* line 256
initialPrompt ==
    "You are Git Flash, an AI assistant for git and file system operations. "
    \o "You are operating in the directory: " \o ToStr(cwd)
    \o ". The user's goal is: " \o Instruction

\* JSON.stringify of a string value
stringify(v) == "\"" \o ToStr(v) \o "\""

\* Object.entries(args).map(([k, v]) => `${k}=${JSON.stringify(v)}`), line 263
shownEntries(args) == [i \in 1..Len(args.v) |-> <<args.v[i][1], stringify(args.v[i][2])>>]

\* commandDisplay of line 263: the text, and the name and entries it shows
commandDisplay(name, args) ==
    [name |-> name, entries |-> shownEntries(args),
     text |-> name \o "("
              \o Join([i \in 1..Len(args.v) |->
                          shownEntries(args)[i][1] \o "=" \o shownEntries(args)[i][2]], ", ")
              \o ")"]

\* a placeholder with another text
DryRunOutput_other == ObjectResult([status |-> "Dry run"])

\* line 269
DryRunOutput == ObjectResult([status |-> "Dry run mode, command not executed."])

\* a response body that carries no result
functionResponse_empty(name, output) == [name |-> name, result |-> NoValue]

\* the functionResponse of lines 276-281
functionResponse(name, output) == [name |-> name, result |-> output]

\* the loop test of line 259, for a response with a candidate and a first
\* part: content.parts && content.parts[0].functionCall
hasFunctionCall(r) == r.parts.defined /\ r.parts.v[1].isCall

\* line 259 throws a TypeError: there is no candidate, or parts is empty
loopTestThrows(r) == ~r.candidate \/ (r.parts.defined /\ r.parts.v = <<>>)

\* response.response.text(): the text parts, concatenated
responseText(r) ==
    IF ~r.parts.defined THEN ""
    ELSE Join([i \in 1..Len(r.parts.v) |-> r.parts.v[i].text], "")

\* where the loop goes after the test of line 259 succeeds, and after the
\* if/else of lines 267-272
afterLoopTest_dispatch == "dispatch"
afterLoopTest == "display"
afterDispatch_send == "send"
afterDispatch == "print"

\* a send that is not awaited: the loop tests the response it already has
afterSend_test == "test"
\* `result = await chat.sendMessage(...)`, line 276: the loop waits for the
\* service's answer
afterSend == "awaitModel"

\* the messages sent and the responses received, in order
Sent(l) == SelectSeq(l, LAMBDA e : e.ev \in {"sendPrompt", "sendResult"})
Received(l) == SelectSeq(l, LAMBDA e : e.ev = "receive")

\* the reasoning service answers the same conversation the same way: when
\* the messages sent so far are those of the earlier invocation, r is the
\* response it gave then
ServiceConsistent(r) ==
    \A i \in 1..Len(prev) :
        LET n == turn + 1
            before == Sent(prev[i].log)
            then == Received(prev[i].log)
        IN  (Len(before) >= n /\ Len(then) >= n /\ SubSeq(before, 1, n) = Sent(log))
            => r = then[n].value

(***************************************************************************)
(* runGenerativeGitFlow(instruction, dryRun), lines 123-285.               *)
(***************************************************************************)
Init ==
    /\ fs = InitFS
    /\ cwd \in WorkDirs
    /\ dryRun \in BOOLEAN
    /\ pc = "start"
    /\ turn = 0
    /\ response = NoResponse
    /\ call = NoCall
    /\ toolOutput = NoValue
    /\ trace = <<>>
    /\ log = <<>>
    /\ fault = ""
    /\ execs = 0
    /\ prev = <<>>

\* lines 256-257: the prompt is sent
SendPrompt ==
    /\ pc = "start"
    /\ log' = Append(log, Event("sendPrompt", NoCall, NoValue, initialPrompt, <<>>))
    /\ pc' = "awaitModel"
    /\ UNCHANGED <<fs, cwd, dryRun, turn, response, call, toolOutput, trace, fault, execs, prev>>

\* await chat.sendMessage(...) resolves with r; after cap turns the service
\* stops asking for tools
ModelResponds(r, cap) ==
    /\ pc = "awaitModel"
    /\ turn < cap \/ r = PlainText
    /\ ServiceConsistent(r)
    /\ response' = r
    /\ turn' = turn + 1
    /\ log' = Append(log, [Event("receive", NoCall, r, "", <<>>) EXCEPT !.turn = turn + 1])
    /\ pc' = "test"
    /\ UNCHANGED <<fs, cwd, dryRun, call, toolOutput, trace, fault, execs, prev>>

\* await chat.sendMessage(...) rejects: nothing catches it
ServiceFails ==
    /\ pc = "awaitModel"
    /\ fault' = "ServiceFailure"
    /\ pc' = "aborted"
    /\ UNCHANGED <<fs, cwd, dryRun, turn, response, call, toolOutput, trace, log, execs, prev>>

\* lines 259-261: the loop test, and { name, args } of the first part
LoopTest ==
    /\ pc = "test"
    /\ IF loopTestThrows(response)
       THEN /\ fault' = "TypeError"
            /\ pc' = "aborted"
            /\ call' = call
       ELSE IF hasFunctionCall(response)
       THEN /\ call' = response.parts.v[1].call
            /\ pc' = afterLoopTest
            /\ fault' = fault
       ELSE /\ pc' = "final"
            /\ UNCHANGED <<call, fault>>
    /\ UNCHANGED <<fs, cwd, dryRun, turn, response, toolOutput, trace, log, execs, prev>>

\* a display made only when the command is about to run
consoleLog_realOnly(l, e) == IF dryRun THEN l ELSE Append(l, e)

\* console.log of line 264: the line is printed in either mode
consoleLog(l, e) == Append(l, e)

\* lines 263-264: Object.entries(args) throws when args is undefined
Display ==
    /\ pc = "display"
    /\ IF ~call.args.defined
       THEN /\ fault' = "TypeError"
            /\ pc' = "aborted"
            /\ log' = log
       ELSE /\ log' = consoleLog(log, Event("display", NoCall, NoValue,
                                           commandDisplay(call.name, call.args).text,
                                           commandDisplay(call.name, call.args)))
            /\ pc' = "dispatch"
            /\ fault' = fault
    /\ UNCHANGED <<fs, cwd, dryRun, turn, response, call, toolOutput, trace, execs, prev>>

\* lines 267-269
DryRunSkip ==
    /\ pc = "dispatch"
    /\ dryRun
    /\ toolOutput' = DryRunOutput
    /\ log' = Append(log, Event("skip", NoCall, NoValue, "-- DRY RUN: SKIPPING COMMAND --", <<>>))
    /\ pc' = afterDispatch
    /\ UNCHANGED <<fs, cwd, dryRun, turn, response, call, trace, fault, execs, prev>>

\* the await of line 271 resumes with the completion c of executeTool
resume(c) ==
    /\ fs' = c.fs
    /\ trace' = c.trace
    /\ log' = Append(log, Event("exec", call, IF c.threw THEN NoValue ELSE c.value, "", c.trace))
    /\ IF c.threw
       THEN /\ fault' = c.message
            /\ pc' = "aborted"
            /\ toolOutput' = toolOutput
       ELSE /\ toolOutput' = c.value
            /\ pc' = afterDispatch
            /\ fault' = fault

\* line 271: await executeTool(name, args)
Execute(ord, outcome) ==
    /\ pc = "dispatch"
    /\ ~dryRun
    /\ Relevant(call.name, ord, outcome)
    /\ resume(executeTool(fs, cwd, call.name, call.args, ord, outcome))
    /\ UNCHANGED <<cwd, dryRun, turn, response, call, execs, prev>>

\* line 274
PrintResult ==
    /\ pc = "print"
    /\ log' = Append(log, Event("print", NoCall, toolOutput, "", <<>>))
    /\ pc' = "send"
    /\ UNCHANGED <<fs, cwd, dryRun, turn, response, call, toolOutput, trace, fault, execs, prev>>

\* lines 276-281: the function response is sent
SendResult ==
    /\ pc = "send"
    /\ log' = Append(log, Event("sendResult", NoCall, functionResponse(call.name, toolOutput), "", <<>>))
    /\ pc' = afterSend
    /\ UNCHANGED <<fs, cwd, dryRun, turn, response, call, toolOutput, trace, fault, execs, prev>>

\* line 284
FinalResponse ==
    /\ pc = "final"
    /\ log' = Append(log, Event("final", NoCall, NoValue, responseText(response), <<>>))
    /\ pc' = "done"
    /\ UNCHANGED <<fs, cwd, dryRun, turn, response, call, toolOutput, trace, fault, execs, prev>>

\* one step of an invocation whose service answers from rs and asks for
\* tools in at most cap turns
Loop(cap, rs) ==
    \/ SendPrompt
    \/ \E r \in rs : ModelResponds(r, cap)
    \/ ServiceFails
    \/ LoopTest
    \/ Display
    \/ DryRunSkip
    \/ \E ord \in Orders, outcome \in GitOutcomes : Execute(ord, outcome)
    \/ PrintResult
    \/ SendResult
    \/ FinalResponse

Next == Loop(MaxTurns, Responses)

Spec == Init /\ [][Next]_vars

(***************************************************************************)
(* The same instruction run twice, once in each mode, against the same     *)
(* reasoning service: when the first invocation has ended the program is   *)
(* started again with the other value of --dry-run.                        *)
(***************************************************************************)
Reinvoke ==
    /\ pc \in {"done", "aborted"}
    /\ prev = <<>>
    /\ prev' = <<[dryRun |-> dryRun, log |-> log, pc |-> pc]>>
    /\ dryRun' = ~dryRun
    /\ pc' = "start"
    /\ turn' = 0
    /\ response' = NoResponse
    /\ call' = NoCall
    /\ toolOutput' = NoValue
    /\ trace' = <<>>
    /\ log' = <<>>
    /\ fault' = ""
    /\ UNCHANGED <<fs, cwd, execs>>

NextPair == Loop(MaxTurns, PairResponses) \/ Reinvoke

SpecPair == Init /\ [][NextPair]_vars

(***************************************************************************)
(* The executor on its own: executeTool called up to MaxExecs times in a   *)
(* row, on the filesystem the earlier calls left.                          *)
(***************************************************************************)
InitExec ==
    /\ fs = InitFS
    /\ cwd \in WorkDirs
    /\ dryRun = FALSE
    /\ pc = "harness"
    /\ turn = 0
    /\ response = NoResponse
    /\ call = NoCall
    /\ toolOutput = NoValue
    /\ trace = <<>>
    /\ log = <<>>
    /\ fault = ""
    /\ execs = 0
    /\ prev = <<>>

\* the harness's await resumes with the completion c of executeTool
harnessResume(c) ==
    /\ fs' = c.fs
    /\ trace' = c.trace
    /\ toolOutput' = IF c.threw THEN NoValue ELSE c.value
    /\ fault' = c.message
    /\ pc' = IF c.threw THEN "threw" ELSE "harness"

ExecStep(c, ord, outcome) ==
    /\ pc = "harness"
    /\ execs < MaxExecs
    /\ Relevant(c.name, ord, outcome)
    /\ call' = c
    /\ execs' = execs + 1
    /\ harnessResume(executeTool(fs, cwd, c.name, c.args, ord, outcome))
    /\ UNCHANGED <<cwd, dryRun, turn, response, log, prev>>

NextExec == \E c \in ExecCalls, ord \in Orders, outcome \in GitOutcomes : ExecStep(c, ord, outcome)

SpecExec == InitExec /\ [][NextExec]_vars

(***************************************************************************)
(* The listing tools on every directory tree of a bounded family: the      *)
(* working directory /w holds any parent-closed choice of the entries a,   *)
(* d/, d/b, d/error, d/__proto__, d/m/ and d/m/z.                          *)
(***************************************************************************)
TreeFiles == {<<"w", "a">>, <<"w", "d", "b">>, <<"w", "d", "error">>,
              <<"w", "d", "__proto__">>, <<"w", "d", "m", "z">>}
TreeDirs == {<<"w", "d">>, <<"w", "d", "m">>}

\* every file holds a content of its own
TreeFs(S) ==
    [k \in {<<>>, <<"w">>} \cup S |->
        IF k \in TreeFiles THEN FileNode("content of " \o k[Len(k)]) ELSE DirNode]

FileTrees ==
    {TreeFs(S) : S \in {T \in SUBSET (TreeFiles \cup TreeDirs) :
                           \A k \in T : Len(k) > 2 => Prefix(k, Len(k) - 1) \in T}}

\* the calls tried on them
FileCalls ==
    {Call(n, Defined(<<<<"path", p>>>>)) :
        n \in {"list_directory_tree", "read_directory_files"}, p \in {PDot, PD}}

InitFiles ==
    /\ fs \in FileTrees
    /\ cwd = DirW
    /\ dryRun = FALSE
    /\ pc = "harness"
    /\ turn = 0
    /\ response = NoResponse
    /\ call = NoCall
    /\ toolOutput = NoValue
    /\ trace = <<>>
    /\ log = <<>>
    /\ fault = ""
    /\ execs = 0
    /\ prev = <<>>

NextFiles == \E c \in FileCalls, ord \in Orders, outcome \in GitOutcomes : ExecStep(c, ord, outcome)

SpecFiles == InitFiles /\ [][NextFiles]_vars

(***************************************************************************)
(* Properties.                                                             *)
(***************************************************************************)
IsPrefix(a, b) == Len(a) <= Len(b) /\ SubSeq(b, 1, Len(a)) = a
Events(l, ev) == SelectSeq(l, LAMBDA e : e.ev = ev)
\* the { error: message } shape
IsErrorResult(v) == v.kind = "object" /\ DOMAIN v.o = {"error"}

\* C1: path confinement.  Every path the Path Guard returns is the working
\* directory itself or a descendant of it: segment by segment, the working
\* directory's path is a prefix of the returned path.
C1_PathConfinement ==
    \A i \in 1..Len(trace) :
        (trace[i].op = "guard" /\ trace[i].ok)
            => Under(Key(cwd), Key(trace[i].resolved))

\* C2: executor totality.  After any sequence of earlier executions a call
\* of executeTool never throws: it returns a value, and for a name that is
\* no registered tool that value is {error: "Unknown tool: <name>"}.
C2_ExecutorTotality ==
    /\ pc # "threw"
    /\ fault = ""
    /\ (execs > 0 /\ call.name \notin ToolNames)
          => toolOutput = [kind |-> "object", s |-> "",
                           o |-> [error |-> "Unknown tool: " \o call.name]]

\* C2 happens: the working directory was removed by an earlier call and a
\* call without arguments still returned an error value
C2_Witness ==
    /\ execs >= 2
    /\ ~Exists(fs, Key(cwd))
    /\ ~call.args.defined
    /\ call.name = "read_file"
    /\ IsErrorResult(toolOutput)

\* C3: dry-run performs no side effects.  In dry-run mode the executor is
\* never invoked, the filesystem stays as it was, and every result printed
\* and sent back is {status: "Dry run mode, command not executed."}.
C3_DryRunNoSideEffects ==
    dryRun =>
        /\ fs = InitFS
        /\ trace = <<>>
        /\ pc \in {"print", "send"}
              => toolOutput.o = [status |-> "Dry run mode, command not executed."]
        /\ \A i \in 1..Len(log) :
              /\ log[i].ev # "exec"
              /\ log[i].ev = "print"
                    => log[i].value.o = [status |-> "Dry run mode, command not executed."]
              /\ log[i].ev = "sendResult"
                    => log[i].value.result.o = [status |-> "Dry run mode, command not executed."]

\* C3 happens: a dry run has sent two placeholder results back
C3_Witness == dryRun /\ Len(Events(log, "sendResult")) >= 2

\* what the invocations displayed and received
Displays(l) == [i \in 1..Len(Events(l, "display")) |-> Events(l, "display")[i].text]
ReceivedResponses(l) == [i \in 1..Len(Received(l)) |-> Received(l)[i].value]

\* C4 as stated: dry-run parity.  The dry run and the real run of one
\* instruction, both run to their final answer, displayed the same sequence
\* of intended tool calls.
C4_DryRunParity ==
    (prev # <<>> /\ pc = "done" /\ prev[1].pc = "done")
        => Displays(log) = Displays(prev[1].log)

\* C4 amended: dry-run parity for the same responses.  While the second
\* invocation has received what the first one received, it has displayed
\* what the first one displayed; when both have ended on the same sequence
\* of responses, the displayed sequences are equal.
C4_DryRunParitySameResponses ==
    prev # <<>> =>
        /\ IsPrefix(ReceivedResponses(log), ReceivedResponses(prev[1].log))
              => IsPrefix(Displays(log), Displays(prev[1].log))
        /\ (pc \in {"done", "aborted"}
            /\ ReceivedResponses(log) = ReceivedResponses(prev[1].log))
              => Displays(log) = Displays(prev[1].log)

\* C4 happens: a dry run and a real run received the same responses, a tool
\* call among them, and the real run executed it
C4_Witness ==
    /\ prev # <<>>
    /\ pc = "done"
    /\ prev[1].pc = "done"
    /\ ReceivedResponses(log) = ReceivedResponses(prev[1].log)
    /\ Len(Displays(log)) >= 1
    /\ Len(Events(log, "exec")) + Len(Events(prev[1].log, "exec")) >= 1

\* C5: display before execution.  Every execution is directly preceded, in
\* the same turn, by the display of its call: the tool's name and every
\* argument with its value.
C5_DisplayBeforeExecution ==
    \A i \in 1..Len(log) :
        log[i].ev = "exec" =>
            /\ i > 1
            /\ log[i - 1].ev = "display"
            /\ log[i - 1].turn = log[i].turn
            /\ log[i - 1].shown.name = log[i].call.name
            /\ Len(log[i - 1].shown.entries) = Len(log[i].call.args.v)
            /\ \A j \in 1..Len(log[i].call.args.v) :
                  /\ log[i - 1].shown.entries[j][1] = log[i].call.args.v[j][1]
                  /\ log[i - 1].shown.entries[j][2]
                        = "\"" \o ToStr(log[i].call.args.v[j][2]) \o "\""

\* C5 happens: a call with two arguments was executed
C5_Witness ==
    \E i \in 1..Len(log) : log[i].ev = "exec" /\ Len(log[i].call.args.v) = 2

\* a response holds a tool-call request when one of its parts is a
\* functionCall; FirstCall is the first of them
ContainsCall(r) == r.parts.defined /\ \E i \in 1..Len(r.parts.v) : r.parts.v[i].isCall
FirstCall(r) == r.parts.v[Min({i \in 1..Len(r.parts.v) : r.parts.v[i].isCall})].call
IsPlainText(r) ==
    r.candidate /\ r.parts.defined /\ r.parts.v # <<>>
    /\ \A i \in 1..Len(r.parts.v) : ~r.parts.v[i].isCall
\* the calls requested by the responses received, and the calls executed
Requested(l) ==
    [i \in 1..Len(SelectSeq(ReceivedResponses(l), ContainsCall)) |->
        FirstCall(SelectSeq(ReceivedResponses(l), ContainsCall)[i])]
Executed(l) == [i \in 1..Len(Events(l, "exec")) |-> Events(l, "exec")[i].call]

\* C6: exact execution count.  A real-mode invocation that has surfaced its
\* final answer has executed exactly the tool calls the responses
\* requested, in the order requested, and the final answer is the text of
\* the response that requested none.
C6_ExactExecutionCount ==
    (pc = "done" /\ ~dryRun) =>
        /\ Executed(log) = Requested(log)
        /\ log[Len(log)].ev = "final"
        /\ log[Len(log)].text = responseText(response)

\* C7: termination condition.  A response that holds a tool-call request in
\* any of its parts is never treated as the final answer.
C7_TerminationCondition ==
    pc \in {"final", "done"} => ~ContainsCall(response)

\* C8: only service failures abort.  When the last response was plain text
\* or a tool-call request, an invocation that aborted did so because a call
\* to the reasoning service failed.
C8_OnlyServiceFailuresAbort ==
    (pc = "aborted" /\ (IsPlainText(response) \/ ContainsCall(response)))
        => fault = "ServiceFailure"

\* an execution failed: the guard denied a path, an fs call was rejected,
\* or the name is no tool
PathDenied(e) ==
    \E j \in 1..Len(e.shown) :
        e.shown[j].op = "guard" /\ ~e.shown[j].ok /\ e.shown[j].resolved # <<>>
DeniedPath(e) ==
    e.shown[CHOOSE j \in 1..Len(e.shown) : e.shown[j].op = "guard" /\ ~e.shown[j].ok].path
IoFailed(e) ==
    \E j \in 1..Len(e.shown) : e.shown[j].op \notin {"guard", "exec"} /\ ~e.shown[j].ok
UnknownTool(e) == e.call.name \notin ToolNames

\* C9: tool failures are recoverable data.  A call that fails with
\* PathDenied, an I/O failure or an unknown name returns {error: message}
\* (for PathDenied the message names the path), that value is printed and
\* sent back as the tool's result, and the loop goes on to await the next
\* response (which only a failure of the service itself can end).
C9_ToolFailuresAreData ==
    \A i \in 1..Len(log) :
        (log[i].ev = "exec" /\ (PathDenied(log[i]) \/ IoFailed(log[i]) \/ UnknownTool(log[i])))
        => /\ IsErrorResult(log[i].value)
           /\ PathDenied(log[i])
                 => log[i].value.o.error
                      = "Path access denied: '" \o DeniedPath(log[i])
                        \o "' is outside the project directory."
           /\ UnknownTool(log[i])
                 => log[i].value.o.error = "Unknown tool: " \o log[i].call.name
           /\ i = Len(log) => pc = "print"
           /\ i + 1 = Len(log) => pc = "send"
           /\ i + 2 <= Len(log)
                 => /\ log[i + 2].ev = "sendResult"
                    /\ log[i + 2].value.name = log[i].call.name
                    /\ log[i + 2].value.result = log[i].value
           /\ i + 2 = Len(log)
                 => pc = "awaitModel" \/ (pc = "aborted" /\ fault = "ServiceFailure")

\* C9 happens: a call was denied by the guard, its error was sent back and
\* the next response was received
C9_Witness ==
    \E i \in 1..Len(log) :
        /\ log[i].ev = "exec"
        /\ PathDenied(log[i])
        /\ i + 3 <= Len(log)
        /\ log[i + 3].ev = "receive"

\* C10: audit before sending.  Every tool result sent back to the service,
\* in either mode, was printed directly before it was sent.
C10_AuditBeforeSending ==
    \A i \in 1..Len(log) :
        log[i].ev = "sendResult" =>
            /\ i > 1
            /\ log[i - 1].ev = "print"
            /\ log[i - 1].turn = log[i].turn
            /\ log[i - 1].value = log[i].value.result

\* C10 happens: a real result and, in a dry run, a placeholder were sent
C10_Witness ==
    /\ Len(Events(log, "sendResult")) >= 2
    /\ dryRun \/ \E i \in 1..Len(log) : log[i].ev = "sendResult" /\ IsErrorResult(log[i].value.result)

\* C11: run_git_command reports the command's failure as a normal result.
\* Whenever git was started for a call with arguments, whether it succeeded,
\* exited non-zero or could not run, the executor returns the mapping
\* {stdout, stderr, return_code}, never {error: ...}, and return_code is 0
\* exactly when the command succeeded.
C11_GitFailureIsResult ==
    (execs > 0 /\ call.name = "run_git_command" /\ call.args.defined) =>
        /\ toolOutput.kind = "object"
        /\ DOMAIN toolOutput.o = {"stdout", "stderr", "return_code"}
        /\ Len(trace) = 1
        /\ trace[1].op = "exec"
        /\ (toolOutput.o.return_code = JsNumber(0)) <=> trace[1].ok

\* C11 happens: a git command exited with status 1 in an existing directory
C11_Witness ==
    /\ execs > 0
    /\ call.name = "run_git_command"
    /\ IsDir(fs, Key(cwd))
    /\ toolOutput.kind = "object"
    /\ "return_code" \in DOMAIN toolOutput.o
    /\ toolOutput.o.return_code = JsNumber(1)
    /\ toolOutput.o.stderr = "fatal"

\* the entries below root, and the line of one of them: two spaces for
\* every level below the root's own entries, the name, "/" for a directory
Descendants(f, root) == {k \in DOMAIN f : Under(root, k) /\ k # root}
RECURSIVE Spaces(_)
Spaces(levels) == IF levels = 0 THEN "" ELSE "  " \o Spaces(levels - 1)
TreeLine(f, root, k) ==
    Spaces(Len(k) - Len(root) - 1) \o k[Len(k)] \o (IF f[k].isDir THEN "/" ELSE "")

\* x comes before y in the traversal: x is a directory above y, or where
\* their paths part x's name comes first in the directory order
Index(ord, name) == CHOOSE i \in 1..Len(ord) : ord[i] = name
Parting(x, y) == Min({i \in 1..Len(x) : i > Len(y) \/ x[i] # y[i]})
Before(ord, x, y) ==
    /\ x # y
    /\ \/ Under(x, y)
       \/ ~Under(y, x) /\ Index(ord, x[Parting(x, y)]) < Index(ord, y[Parting(x, y)])

\* the listing of the tree below root: line i is the line of the entry that
\* has i - 1 entries before it
TreeLines(f, root, ord) ==
    [i \in 1..Cardinality(Descendants(f, root)) |->
        TreeLine(f, root,
                 CHOOSE k \in Descendants(f, root) :
                     Cardinality({x \in Descendants(f, root) : Before(ord, x, k)}) = i - 1)]

\* the last call passed the guard and every fs call it made succeeded
Succeeded ==
    /\ execs > 0
    /\ trace # <<>>
    /\ \A i \in 1..Len(trace) : trace[i].ok

\* C12: tree listing format.  A successful list_directory_tree returns, for
\* the directory order of the platform, one line for every entry below the
\* root: depth d is shown by 2*d spaces, a directory by a trailing "/", and
\* the entries of a directory follow its line directly, before any later
\* sibling.
C12_TreeListingFormat ==
    (Succeeded /\ call.name = "list_directory_tree") =>
        \E ord \in Orders :
            toolOutput = StringResult(Join(TreeLines(fs, Key(trace[1].resolved), ord), "\n"))

\* C12 happens: the tree a, d/, d/b, d/m/, d/m/z was listed with the
\* directory first, its entries at depths 1 and 2 below it
C12_Witness ==
    /\ Succeeded
    /\ call.name = "list_directory_tree"
    /\ toolOutput = StringResult("d/\n  m/\n    z\n  b\na")

\* C13: directory-file read selectivity.  A successful read_directory_files
\* returns a mapping whose keys are exactly the names of the regular files
\* directly inside the directory, each mapped to its content.
C13_ReadSelectivity ==
    (Succeeded /\ call.name = "read_directory_files") =>
        /\ toolOutput.kind = "object"
        /\ DOMAIN toolOutput.o
              = {n \in ChildNames(fs, Key(trace[1].resolved)) :
                    IsFile(fs, Append(Key(trace[1].resolved), n))}
        /\ \A n \in DOMAIN toolOutput.o :
              toolOutput.o[n] = fs[Append(Key(trace[1].resolved), n)].content

\* C14: no iteration bound.  While every response the service has given
\* holds a tool-call request, the invocation goes on: it has not surfaced a
\* final answer, and it has not ended at all unless a call to the service
\* itself failed.
C14_NoIterationBound ==
    (Len(Received(log)) > 0
     /\ \A i \in 1..Len(Received(log)) : ContainsCall(Received(log)[i].value))
        => /\ pc \notin {"final", "done"}
           /\ pc = "aborted" => fault = "ServiceFailure"

\* the path arguments of a path-bearing tool, in the order the code reads
\* them, and the guard checks at the head of a trace
PathBearingTools == PathTools \cup {"write_file", "move_file"}
PathKeys(name) == IF name = "move_file" THEN <<"source", "destination">> ELSE <<"path">>
GuardChecks(t) == SelectSeq(t, LAMBDA e : e.op = "guard")

\* one call of a path-bearing tool, from the filesystem f to g with trace t
GuardedCall(c, t, f, g) ==
    \* the guard checks come first, one for each path argument in turn
    /\ \A i \in 1..Len(t) : t[i].op = "guard" <=> i <= Len(GuardChecks(t))
    /\ Len(GuardChecks(t)) <= Len(PathKeys(c.name))
    /\ \A i \in 1..Len(GuardChecks(t)) :
          Prop(c.args, PathKeys(c.name)[i]).defined
              => t[i].path = ToStr(Prop(c.args, PathKeys(c.name)[i]).v)
    \* a filesystem operation was made only after every argument passed
    /\ Len(GuardChecks(t)) < Len(t)
          => /\ Len(GuardChecks(t)) = Len(PathKeys(c.name))
             /\ \A i \in 1..Len(GuardChecks(t)) : t[i].ok
    \* a denial leaves the filesystem as it was
    /\ (\E i \in 1..Len(t) : t[i].op = "guard" /\ ~t[i].ok) => g = f
    /\ g # f => Len(GuardChecks(t)) < Len(t)

\* C15: guard before effect.  In every call of a path-bearing tool the Path
\* Guard is applied to every path argument (source, then destination, for
\* move_file) before any filesystem operation, and when it denies one of
\* them the call makes no filesystem operation and changes nothing.
C15_GuardBeforeEffect ==
    [][(execs' = execs + 1 /\ call'.name \in PathBearingTools /\ call'.args.defined)
          => GuardedCall(call', trace', fs, fs')]_vars

\* C15 happens: move_file had its source accepted and its destination
\* denied, and nothing was moved
C15_Witness ==
    /\ execs = 1
    /\ call.name = "move_file"
    /\ Len(trace) = 2
    /\ trace[1].ok
    /\ ~trace[2].ok
    /\ fs = InitFS

\* the calls to the reasoning service that are awaiting their answer after
\* the first n entries of the log
InFlight(l, n) == Len(Sent(SubSeq(l, 1, n))) - Len(Received(SubSeq(l, 1, n)))

\* C16: strict serialization.  At most one call to the reasoning service is
\* awaiting its answer at any time, and while one is the loop only waits.
\* The log only grows at its end, so every entry is the last one in the
\* state where it was logged: when a message has just been sent, or a tool
\* executed or skipped, no call to the service was awaiting its answer; a
\* tool just executed is the call the latest response asked for first, and
\* no tool was executed or skipped before it in the same turn.
C16_StrictSerialization ==
    /\ InFlight(log, Len(log)) \in {0, 1}
    /\ InFlight(log, Len(log)) = 1 => pc \in {"awaitModel", "aborted"}
    /\ (log # <<>> /\ log[Len(log)].ev \in {"sendPrompt", "sendResult", "exec", "skip"})
          => InFlight(log, Len(log) - 1) = 0
    /\ (log # <<>> /\ log[Len(log)].ev = "exec")
          => /\ log[Len(log)].turn = Len(Received(log))
             /\ Received(log) # <<>>
             /\ log[Len(log)].call = Received(log)[Len(Received(log))].value.parts.v[1].call
    /\ (log # <<>> /\ log[Len(log)].ev \in {"exec", "skip"})
          => \A i \in 1..(Len(log) - 1) :
                log[i].ev \in {"exec", "skip"} => log[i].turn < log[Len(log)].turn

\* C16 happens: two tools were executed and a third response has come
C16_Witness ==
    /\ Len(Events(log, "exec")) = 2
    /\ Len(Received(log)) = 3
    /\ pc = "test"

\* C17: request/response pairing.  The messages sent are the prompt and
\* then one function response for every tool-call request received, in
\* order, each under the request's tool name and carrying the result
\* obtained for it; every request has its response before the next model
\* response is awaited and before the final answer.
C17_RequestResponsePairing ==
    /\ Sent(log) # <<>> => Sent(log)[1].ev = "sendPrompt"
    /\ Len(Events(log, "sendResult")) <= Len(Requested(log))
    /\ \A i \in 1..Len(Events(log, "sendResult")) :
          Events(log, "sendResult")[i].value.name = Requested(log)[i].name
    /\ \A k \in 1..Len(log) :
          log[k].ev = "sendResult"
              => /\ k > 2
                 /\ log[k - 2].ev \in {"exec", "skip"}
                 /\ log[k].value.result
                       = IF log[k - 2].ev = "exec" THEN log[k - 2].value ELSE DryRunOutput
    /\ pc \in {"awaitModel", "final", "done"}
          => Len(Events(log, "sendResult")) = Len(Requested(log))

\* C18: fixed confinement root.  Throughout an invocation the working
\* directory the Path Guard resolves against exists and is a directory:
\* no tool execution removes it or replaces it.
C18_FixedConfinementRoot == IsDir(fs, Key(cwd))

\* C19: delete_directory is idempotent on a missing target.  A call of
\* delete_directory whose path passed the guard and did not exist returns
\* the success result and leaves the filesystem as it was.
C19_DeleteMissingDirectory ==
    [][(/\ execs' = execs + 1
        /\ call'.name = "delete_directory"
        /\ trace' # <<>>
        /\ trace'[1].op = "guard"
        /\ trace'[1].ok
        /\ ~Exists(fs, Key(trace'[1].resolved)))
          => /\ fs' = fs
             /\ toolOutput' = StringResult("Successfully deleted directory '" \o trace'[1].path
                                           \o "' and all its contents.")]_vars

\* the last call failed: its name is no tool, its arguments are missing,
\* the guard denied a path or an fs call or the git command failed
OperationFailed ==
    \/ call.name \notin ToolNames
    \/ ~call.args.defined
    \/ call.name = "write_file" /\ ~HasKey(call.args, "content")
    \/ \E i \in 1..Len(trace) : ~trace[i].ok

\* C20: error results are unambiguous.  executeTool returns a mapping of the
\* shape {error: message} only when the operation failed or the tool name
\* is unknown, whatever the directory holds.
C20_ErrorResultsUnambiguous ==
    (execs > 0 /\ IsErrorResult(toolOutput)) => OperationFailed

====
